---------------------------- MODULE Spec2Model ----------------------------
(***************************************************************************)
(* A model of getdata_alta.py: the range parser parse_list, the archive    *)
(* location policy get_alta_dir and the transfer loop getdata_alta.        *)
(*                                                                         *)
(* A Python string is a sequence of tokens.  In the strings handed to      *)
(* parse_list every token is one character; in archive and local paths a   *)
(* fixed literal of a format template is one token and every formatted     *)
(* digit is one token.  A date is the integer of its YYMMDD digits, as in   *)
(* the doctests; "{date}" prints those digits.                             *)
(***************************************************************************)
EXTENDS Integers, Sequences, FiniteSets, TLC

VARIABLES
    pc,         \* where the modelled call stands
    spec,       \* parse_list: the specification string
    ret,        \* parse_list / get_alta_dir: what the call returned or raised
    args,       \* get_alta_dir / getdata_alta: the arguments of the call
    log,        \* every external command issued so far, in order
    targetdir,  \* getdata_alta: the local variable targetdir
    tmpdir,     \* getdata_alta: the local variable tmpdir
    beams,      \* getdata_alta: the local variable beams
    task_ids,   \* getdata_alta: the local variable task_ids
    bi,         \* getdata_alta: index of the current beam in beams
    ti,         \* getdata_alta: index of the current task id in task_ids
    fs,         \* the local file system: the entries that exist
    probe       \* what the last ils command answered

vars == <<pc, spec, ret, args, log, targetdir, tmpdir, beams, task_ids, bi, ti, fs, probe>>

None == [kind |-> "none"]

----------------------------------------------------------------------------
(* Bounds of the model.                                                    *)

\* longest specification string handed to parse_list
MaxLen == 5
\* largest non-zero exit status the ils command is taken to give
MaxExit == 2
\* longest list of task ids handed to getdata_alta
MaxTasks == 2

----------------------------------------------------------------------------
(* Python strings and integers.                                            *)

Digits == <<"0", "1", "2", "3", "4", "5", "6", "7", "8", "9">>

IsDigit(c) == \E i \in 1..10 : Digits[i] = c

DigitVal(c) == (CHOOSE i \in 1..10 : Digits[i] = c) - 1

\* ord(c) for the characters of a range specification
Ord(c) == IF c = "," THEN 44 ELSE IF c = "-" THEN 45 ELSE 48 + DigitVal(c)

\* a < b on Python str: lexicographic on code points, a proper prefix is smaller
StrLess(a, b) ==
    \E k \in 1..Len(b) :
        /\ \A j \in 1..(k - 1) : j <= Len(a) /\ a[j] = b[j]
        /\ \/ k > Len(a)
           \/ k <= Len(a) /\ Ord(a[k]) < Ord(b[k])

\* s.split(c): the pieces of s between the occurrences of c
RECURSIVE SplitFrom(_, _, _)
SplitFrom(s, c, cur) ==
    IF s = <<>> THEN <<cur>>
    ELSE IF Head(s) = c THEN <<cur>> \o SplitFrom(Tail(s), c, <<>>)
    ELSE SplitFrom(Tail(s), c, Append(cur, Head(s)))

Split(s, c) == SplitFrom(s, c, <<>>)

\* c in s
Contains(s, c) == \E i \in 1..Len(s) : s[i] = c

\* int(s) is defined on the non-empty digit strings; it raises ValueError otherwise
IntOk(s) == s # <<>> /\ \A i \in 1..Len(s) : IsDigit(s[i])

RECURSIVE IntOf(_)
IntOf(s) == IF s = <<>> THEN 0 ELSE 10 * IntOf(SubSeq(s, 1, Len(s) - 1)) + DigitVal(s[Len(s)])

\* list(range(a, b)): a, a+1, ..., b-1
Range(a, b) == IF b <= a THEN <<>> ELSE [i \in 1..(b - a) |-> a + i - 1]

----------------------------------------------------------------------------
(* parse_list                                                              *)

Parsed(l) == [kind |-> "list", val |-> l]
InvalidRange(part) == [kind |-> "InvalidRange", part |-> part]
ParseError == [kind |-> "ParseError"]

\* line 42: end < begin, on the two strings
EndSmaller(begin, end) == StrLess(end, begin)

\* lines 40-47: what one comma-separated part contributes
parse_part(spec_part) ==
    IF Contains(spec_part, "-")
    THEN LET halves == Split(spec_part, "-") IN
         IF Len(halves) # 2 THEN ParseError
         ELSE LET begin == halves[1]
                  end == halves[2]
              IN IF EndSmaller(begin, end) THEN InvalidRange(spec_part)
                 ELSE IF ~(IntOk(begin) /\ IntOk(end)) THEN ParseError
                 ELSE Parsed(Range(IntOf(begin), IntOf(end) + 1))
    ELSE IF IntOk(spec_part) THEN Parsed(<<IntOf(spec_part)>>) ELSE ParseError

RECURSIVE parse_parts(_, _)
parse_parts(parts, ret_list) ==
    IF parts = <<>> THEN Parsed(ret_list)
    ELSE LET r == parse_part(Head(parts)) IN
         IF r.kind # "list" THEN r
         ELSE parse_parts(Tail(parts), ret_list \o r.val)

parse_list(s) == parse_parts(Split(s, ","), <<>>)

SpecChars == {"0", "1", "9", "-", ","}

SpecStrings == UNION {[1..n -> SpecChars] : n \in 1..MaxLen}

\* getdata_alta is not running
RunIdle ==
    /\ targetdir = <<>>
    /\ tmpdir = <<>>
    /\ beams = <<>>
    /\ task_ids = <<>>
    /\ bi = 0
    /\ ti = 0
    /\ fs = {}

InitParse ==
    /\ pc = "parse"
    /\ spec \in SpecStrings
    /\ ret = None
    /\ args = None
    /\ log = <<>>
    /\ probe = None
    /\ RunIdle

ParseList ==
    /\ pc = "parse"
    /\ ret' = parse_list(spec)
    /\ pc' = "parsed"
    /\ UNCHANGED <<spec, args, log, targetdir, tmpdir, beams, task_ids, bi, ti, fs, probe>>

NextParse == ParseList

SpecParse == InitParse /\ [][NextParse]_vars

----------------------------------------------------------------------------
(* Claims about parse_list (checked under SpecParse).                      *)

\* a bare token: a non-empty digit string
IsBareToken(t) == ~Contains(t, "-") /\ IntOk(t)

\* a hyphenated token "a-b" with both sides non-empty digit strings
IsRangeToken(t) ==
    /\ Contains(t, "-")
    /\ Len(Split(t, "-")) = 2
    /\ IntOk(Split(t, "-")[1])
    /\ IntOk(Split(t, "-")[2])

TokenBegin(t) == IntOf(Split(t, "-")[1])
TokenEnd(t) == IntOf(Split(t, "-")[2])

Tokens(s) == Split(s, ",")

\* every token of s is a bare integer or a range of two integers
WellFormed(s) ==
    \A i \in 1..Len(Tokens(s)) : IsBareToken(Tokens(s)[i]) \/ IsRangeToken(Tokens(s)[i])

\* every range of s has end >= begin as integers
RangesAscend(s) ==
    \A i \in 1..Len(Tokens(s)) :
        IsRangeToken(Tokens(s)[i]) => TokenEnd(Tokens(s)[i]) >= TokenBegin(Tokens(s)[i])

\* some range of s has end < begin as integers
SomeRangeDescends(s) ==
    \E i \in 1..Len(Tokens(s)) :
        IsRangeToken(Tokens(s)[i]) /\ TokenEnd(Tokens(s)[i]) < TokenBegin(Tokens(s)[i])

RECURSIVE ExpectedList(_)
ExpectedList(toks) ==
    IF toks = <<>> THEN <<>>
    ELSE (IF IsRangeToken(Head(toks))
          THEN [i \in 1..(TokenEnd(Head(toks)) - TokenBegin(Head(toks)) + 1)
                    |-> TokenBegin(Head(toks)) + i - 1]
          ELSE <<IntOf(Head(toks))>>) \o ExpectedList(Tail(toks))

\* C2: for every specification whose ranges "a-b" all have integer b >= integer
\* a (also with sides of different widths, such as "9-10"), parse_list returns
\* the concatenation, in token order, of [n] for a bare n and a..b for a range.
C2_ParseListConcatenates ==
    (pc = "parsed" /\ WellFormed(spec) /\ RangesAscend(spec))
        => ret = Parsed(ExpectedList(Tokens(spec)))

\* C3: for every specification holding a range "a-b" with integer b < integer a
\* parse_list fails with the invalid-range error and returns no list.
C3_DescendingRangeRejected ==
    (pc = "parsed" /\ WellFormed(spec) /\ SomeRangeDescends(spec))
        => ret.kind = "InvalidRange"

----------------------------------------------------------------------------
(* String formatting.                                                      *)

\* str(n) for n >= 0: the decimal digits of n
RECURSIVE Str(_)
Str(n) == IF n < 10 THEN <<Digits[n + 1]>> ELSE Append(Str(n \div 10), Digits[(n % 10) + 1])

\* "{n:0wd}" and "%.wd" % n: the decimal digits of n, zero-padded to at least w
Pad(n, w) ==
    LET d == Str(n) IN
    IF Len(d) >= w THEN d ELSE [i \in 1..(w - Len(d)) |-> "0"] \o d

----------------------------------------------------------------------------
(* get_alta_dir                                                            *)

\* line 80
LegacyTwoDigitDir(date, task_id, beam_nr) ==
    <<"/altaZone/home/apertif_main/wcudata/", "WSRTA">> \o Str(date) \o Pad(task_id, 2)
        \o <<"/", "WSRTA">> \o Str(date) \o Pad(task_id, 2)
        \o <<"_B">> \o Pad(beam_nr, 3) \o <<".MS">>

\* line 82
LegacyThreeDigitDir(date, task_id, beam_nr) ==
    <<"/altaZone/home/apertif_main/wcudata/", "WSRTA">> \o Str(date) \o Pad(task_id, 3)
        \o <<"/", "WSRTA">> \o Str(date) \o Pad(task_id, 3)
        \o <<"_B">> \o Pad(beam_nr, 3) \o <<".MS">>

\* line 84
IngestDir(date, task_id, beam_nr) ==
    <<"/altaZone/ingest/apertif_main/visibilities_default/">> \o Str(date) \o Pad(task_id, 3)
        \o <<"/", "WSRTA">> \o Str(date) \o Pad(task_id, 3)
        \o <<"_B">> \o Pad(beam_nr, 3) \o <<".MS">>

\* lines 75 and 86
StagedTarball(date, task_id, beam_nr) ==
    <<"/altaZone/stage/apertif_main/visibilities_default/">> \o Str(date) \o Pad(task_id, 3)
        \o <<"/", "WSRTA">> \o Str(date) \o Pad(task_id, 3)
        \o <<"_B">> \o Pad(beam_nr, 3) \o <<".MS", ".tar">>

\* line 88
ArchiveDir(date, task_id, beam_nr) ==
    <<"/altaZone/archive/apertif_main/visibilities_default/">> \o Str(date) \o Pad(task_id, 3)
        \o <<"/", "WSRTA">> \o Str(date) \o Pad(task_id, 3)
        \o <<"_B">> \o Pad(beam_nr, 3) \o <<".MS">>

\* What the ils command can answer.  It runs and exits 0 (the path exists); it
\* runs and exits non-zero, because the path does not exist or because the
\* archive cannot be reached; or it cannot be started at all, and then
\* subprocess.call raises OSError instead of returning an exit status.
IlsAnswers ==
    {[cause |-> "exists", rc |-> 0]}
        \cup {[cause |-> c, rc |-> r] : c \in {"absent", "unreachable"}, r \in 1..MaxExit}
        \cup {[cause |-> "norun", rc |-> -1]}

IlsCmd(path) == [op |-> "ils", path |-> path]

\* the mutant: the probe is only issued where its result can decide
probe_staged_lazy(date, task_id, beam_nr, ils) ==
    IF date < 181003
    THEN [cmds |-> <<>>, raised |-> FALSE, testcold |-> 1]
    ELSE [cmds |-> <<IlsCmd(StagedTarball(date, task_id, beam_nr))>>,
          raised |-> ils.cause = "norun",
          testcold |-> ils.rc]

\* lines 75-77: the probe of the staged tier
probe_staged(date, task_id, beam_nr, ils) ==
    [cmds |-> <<IlsCmd(StagedTarball(date, task_id, beam_nr))>>,
     raised |-> ils.cause = "norun",
     testcold |-> ils.rc]

\* line 79
IsTwoDigitEra(date) == date < 180216

\* the mutant: the legacy flag is not looked at
IsThreeDigitEra_noflag(date, alta_exception) == date < 181003

\* line 81
IsThreeDigitEra(date, alta_exception) == date < 181003 \/ alta_exception

\* the mutant: the task id formatted with two digits
IsReingested_twodigit(date, task_id) == IntOf(Str(date) \o Pad(task_id, 2)) = 190326001

\* line 83
IsReingested(date, task_id) == IntOf(Str(date) \o Pad(task_id, 3)) = 190326001

\* lines 79-88: the rules, given the exit status of the probe
choose_dir(date, task_id, beam_nr, alta_exception, testcold) ==
    IF IsTwoDigitEra(date) THEN LegacyTwoDigitDir(date, task_id, beam_nr)
    ELSE IF IsThreeDigitEra(date, alta_exception) THEN LegacyThreeDigitDir(date, task_id, beam_nr)
    ELSE IF IsReingested(date, task_id) THEN IngestDir(date, task_id, beam_nr)
    ELSE IF testcold = 0 THEN StagedTarball(date, task_id, beam_nr)
    ELSE ArchiveDir(date, task_id, beam_nr)

\* lines 54-88: the commands issued, and the path returned or the error raised
get_alta_dir(date, task_id, beam_nr, alta_exception, ils) ==
    LET p == probe_staged(date, task_id, beam_nr, ils) IN
    IF p.raised
    THEN [kind |-> "OSError", cmds |-> p.cmds]
    ELSE [kind |-> "path", cmds |-> p.cmds,
          val |-> choose_dir(date, task_id, beam_nr, alta_exception, p.testcold)]

Dates == {180201, 180215, 180216, 180321, 181002, 181003, 181205, 190326}
TaskIds == {1, 5, 100}
BeamNrs == {0, 35}

InitDir ==
    /\ pc = "call"
    /\ args \in [date : Dates, task_id : TaskIds, beam_nr : BeamNrs, alta_exception : BOOLEAN]
    /\ spec = <<>>
    /\ ret = None
    /\ log = <<>>
    /\ probe = None
    /\ RunIdle

GetAltaDir ==
    /\ pc = "call"
    /\ \E ils \in IlsAnswers :
        LET r == get_alta_dir(args.date, args.task_id, args.beam_nr, args.alta_exception, ils) IN
        /\ probe' = ils
        /\ log' = log \o r.cmds
        /\ ret' = IF r.kind = "path" THEN [kind |-> "path", val |-> r.val]
                  ELSE [kind |-> r.kind]
    /\ pc' = "returned"
    /\ UNCHANGED <<spec, args, targetdir, tmpdir, beams, task_ids, bi, ti, fs>>

NextDir == GetAltaDir

SpecDir == InitDir /\ [][NextDir]_vars

----------------------------------------------------------------------------
(* Claims about get_alta_dir (checked under SpecDir).                      *)

\* the name of one beam's dataset with the task id in w digits
DatasetName(a, w) ==
    <<"WSRTA">> \o Str(a.date) \o Pad(a.task_id, w) \o <<"_B">> \o Pad(a.beam_nr, 3)

OnlinePath(a, w) ==
    <<"/altaZone/home/apertif_main/wcudata/", "WSRTA">> \o Str(a.date) \o Pad(a.task_id, w)
        \o <<"/">> \o DatasetName(a, w) \o <<".MS">>

TierPath(tier, a) ==
    <<tier>> \o Str(a.date) \o Pad(a.task_id, 3) \o <<"/">> \o DatasetName(a, 3) \o <<".MS">>

\* the first rule whose condition holds
DecidingRule(a, staged) ==
    IF a.date < 180216 THEN 1
    ELSE IF a.date < 181003 \/ a.alta_exception THEN 2
    ELSE IF a.date = 190326 /\ a.task_id = 1 THEN 3
    ELSE IF staged THEN 4
    ELSE 5

RulePath(rule, a) ==
    CASE rule = 1 -> OnlinePath(a, 2)
      [] rule = 2 -> OnlinePath(a, 3)
      [] rule = 3 -> TierPath("/altaZone/ingest/apertif_main/visibilities_default/", a)
      [] rule = 4 ->
            TierPath("/altaZone/stage/apertif_main/visibilities_default/", a) \o <<".tar">>
      [] rule = 5 -> TierPath("/altaZone/archive/apertif_main/visibilities_default/", a)

Returned == pc = "returned" /\ ret.kind = "path"

Staged == probe.cause = "exists"

EndsInTar(path) == Len(path) >= 2 /\ SubSeq(path, Len(path) - 1, Len(path)) = <<".MS", ".tar">>

\* the doctest of lines 67-68
Doctest67 ==
    args = [date |-> 180201, task_id |-> 5, beam_nr |-> 35, alta_exception |-> FALSE]
        => ret.val = <<"/altaZone/home/apertif_main/wcudata/",
                       "WSRTA", "1", "8", "0", "2", "0", "1", "0", "5", "/",
                       "WSRTA", "1", "8", "0", "2", "0", "1", "0", "5",
                       "_B", "0", "3", "5", ".MS">>

\* C1: get_alta_dir returns the path of the first matching rule, in the order
\* (1) date < 180216: two-digit online directory, (2) date < 181003 or the
\* legacy flag: three-digit online directory, (3) the key 190326/001: ingest
\* directory, (4) the staged probe succeeded: staged .MS.tar, (5) otherwise the
\* cold archive directory; the result ends in .MS.tar only when rule (4) decided.
C1_FirstMatchingRule ==
    Returned =>
        /\ ret.val = RulePath(DecidingRule(args, Staged), args)
        /\ EndsInTar(ret.val) <=> (DecidingRule(args, Staged) = 4)
        /\ Doctest67

\* a call on which rule (4) decided although the key is of the year of the exception
C1_Witness ==
    /\ Returned
    /\ args.date = 190326 /\ args.task_id = 5
    /\ Staged
    /\ EndsInTar(ret.val)

\* C4: every call of get_alta_dir issues exactly one existence probe, the ils
\* on the staged-tarball candidate, whichever rule decides the result.
C4_OneProbePerCall ==
    pc = "returned" =>
        /\ Len(log) = 1
        /\ log[1] = [op |-> "ils",
                     path |-> TierPath("/altaZone/stage/apertif_main/visibilities_default/",
                                       args) \o <<".tar">>]

\* a call decided by rule (1), with the legacy flag set, that probed once
C4_Witness ==
    /\ Returned
    /\ args.date < 180216
    /\ args.alta_exception
    /\ Len(log) = 1

\* C5: when the probe itself fails (the archive is unreachable or ils cannot be
\* run), get_alta_dir ends in an error and returns no path.
C5_ProbeFailureRaises ==
    (pc = "returned" /\ probe.cause \in {"unreachable", "norun"}) => ret.kind = "OSError"

IsExceptionKey(a) == a.date = 190326 /\ a.task_id = 1

\* C6: for the key 190326/001 get_alta_dir returns the ingest-tier directory
\* path for every beam, every probe outcome and either value of the legacy flag.
C6_ExceptionAlwaysIngest ==
    (Returned /\ IsExceptionKey(args)) => ret.val = RulePath(3, args)

\* C6 as amended: for the key 190326/001, a call that returns gives the
\* ingest-tier directory path when the legacy flag is not set, for every beam
\* and probe outcome, and the three-digit online path when the flag is set.
C6_ExceptionIngestUnlessLegacy ==
    (Returned /\ IsExceptionKey(args)) =>
        ret.val = IF args.alta_exception THEN RulePath(2, args) ELSE RulePath(3, args)

\* the exception key, flag not set, tarball staged: the ingest path all the same
C6_Witness ==
    /\ Returned
    /\ IsExceptionKey(args)
    /\ ~args.alta_exception
    /\ Staged
    /\ ret.val = RulePath(3, args)

----------------------------------------------------------------------------
(* getdata_alta: local paths and external commands.                        *)

Last(s) == s[Len(s)]

\* s[:-1]
DropLast(s) == SubSeq(s, 1, Len(s) - 1)

\* lines 132-140: "" becomes ".", and a trailing "/" is added when missing
WithSlash(dir) ==
    LET d == IF dir = <<>> THEN <<".">> ELSE dir IN
    IF Last(d) # "/" THEN Append(d, "/") ELSE d

\* s.rstrip("/")
RECURSIVE RStripSlash(_)
RStripSlash(s) == IF s # <<>> /\ Last(s) = "/" THEN RStripSlash(DropLast(s)) ELSE s

\* the index of the last "/" of p, 0 when there is none
LastSlash(p) ==
    IF Contains(p, "/") THEN CHOOSE i \in 1..Len(p) : p[i] = "/" /\ \A j \in (i + 1)..Len(p) : p[j] # "/"
    ELSE 0

\* os.path.split(p)[0]
PathHead(p) ==
    LET head == SubSeq(p, 1, LastSlash(p)) IN
    IF RStripSlash(head) # <<>> THEN RStripSlash(head) ELSE head

\* os.path.join(a, b) for a relative b
PathJoin(a, b) == IF a = <<>> \/ Last(a) = "/" THEN a \o b ELSE a \o <<"/">> \o b

\* the file system's name for p: trailing slashes do not count
Norm(p) == IF RStripSlash(p) = <<>> THEN p ELSE RStripSlash(p)

\* "WSRTA{date}{task_id:03d}_B{beam_nr:03d}"
Dataset(date, task_id, beam_nr) ==
    <<"WSRTA">> \o Str(date) \o Pad(task_id, 3) \o <<"_B">> \o Pad(beam_nr, 3)

\* lines 154-156 and 162-164
IgetCmd(tmp, date, task_id, beam_nr, alta_dir, dest, rc) ==
    [op |-> "iget",
     restart |-> tmp \o Dataset(date, task_id, beam_nr) \o <<"-icat.irods-status">>,
     lfrestart |-> tmp \o Dataset(date, task_id, beam_nr) \o <<"-icat.lf-irods-status">>,
     src |-> alta_dir,
     dst |-> dest,
     rc |-> rc]

\* line 168
TarCmd(tarfile, head, rc) == [op |-> "tar", file |-> tarfile, into |-> head, rc |-> rc]

\* line 178
RenameCall(src, dst, ok) == [op |-> "rename", src |-> src, dst |-> dst, ok |-> ok]

\* line 181
RemoveCall(file) == [op |-> "remove", file |-> file]

\* line 184
SweepCmd(tmp) == [op |-> "rm", pattern |-> tmp \o <<"*irods-status">>]

\* lines 200-202
IrsyncCmd(alta_dir, local_dir, tmp, date, task_id, rc) ==
    [op |-> "irsync",
     remote |-> alta_dir,
     local |-> local_dir,
     logfile |-> tmp \o <<"transfer_WSRTA">> \o Str(date) \o Pad(task_id, 3)
                     \o <<"_to_alta_verify.log">>,
     rc |-> rc]

\* line 208
HostnameCmd == [op |-> "hostname"]

\* line 214
GrepCmd(tmp, date, task_id) ==
    [op |-> "grep",
     logfile |-> tmp \o <<"transfer_WSRTA">> \o Str(date) \o Pad(task_id, 3)
                     \o <<"_to_alta_verify.log">>]

\* an entry of the local file system: a tarball or the measurement set of a dataset
Entry(name, what, task_id, beam_nr) ==
    [name |-> Norm(name), what |-> what, task_id |-> task_id, beam_nr |-> beam_nr]

\* name is an entry of files, or a directory above one
Exists(files, name) ==
    \E e \in files :
        \/ e.name = Norm(name)
        \/ /\ Len(e.name) > Len(Norm(name))
           /\ SubSeq(e.name, 1, Len(Norm(name))) = Norm(name)
           /\ e.name[Len(Norm(name)) + 1] = "/"

\* files with whatever was called name replaced by entry
Put(files, entry) == {e \in files : e.name # entry.name} \cup {entry}

\* the mutant: the exit status is not looked at
check_call_unchecked(rc) == FALSE

\* subprocess.check_call of lines 158, 166 and 204 raises on a non-zero status
check_call(rc) == rc # 0

\* What tar can do: extract the dataset and exit 0, extract part of it and exit
\* non-zero, or extract nothing and exit non-zero.  Without a directory after -C
\* (head is empty) the command line is incomplete and tar extracts nothing.
TarOutcomes(head) ==
    IF head = <<>> THEN {[rc |-> 2, extracted |-> "nothing"]}
    ELSE {[rc |-> 0, extracted |-> "all"],
          [rc |-> 2, extracted |-> "part"],
          [rc |-> 2, extracted |-> "nothing"]}

ToolExits == {0, 1}

----------------------------------------------------------------------------
(* getdata_alta                                                            *)

\* line 153: alta_dir[-2:] == 'MS'
EndsWithMS(alta_dir) == Last(alta_dir) = ".MS"

\* line 160: alta_dir[-3:] == 'tar'
EndsWithTar(alta_dir) == Last(alta_dir) = ".tar"

Outcome(raised, cmds, target, files) ==
    [raised |-> raised, cmds |-> cmds, targetdir |-> target, fs |-> files]

\* lines 153-158: a directory is copied into targetdir
transfer_dir(target, tmp, files, date, task_id, beam_nr, alta_dir, igetrc) ==
    LET iget == IgetCmd(tmp, date, task_id, beam_nr, alta_dir, target, igetrc) IN
    IF check_call(igetrc)
    THEN Outcome("CalledProcessError", <<iget>>, target, files)
    ELSE Outcome("no", <<iget>>, target, files \cup {Entry(target, "ms", task_id, beam_nr)})

\* line 161: targetdir = targetdir[:-1]
stripped(target) == DropLast(target)

\* lines 160-181: a tarball is copied, unpacked, renamed and removed
transfer_tar(target, tmp, files, date, task_id, beam_nr, alta_dir, igetrc, tarout) ==
    LET t == stripped(target)
        tarfile == t \o <<".tar">>
        iget == IgetCmd(tmp, date, task_id, beam_nr, alta_dir, tarfile, igetrc)
        head == PathHead(t)
        tar == TarCmd(tarfile, head, tarout.rc)
        unpacked == PathJoin(head, Dataset(date, task_id, beam_nr) \o <<".MS">>)
        f1 == Put(files, Entry(tarfile, "tar", task_id, beam_nr))
        f2 == IF tarout.extracted = "nothing" THEN f1
              ELSE Put(f1, Entry(unpacked,
                                 IF tarout.extracted = "all" THEN "ms" ELSE "ms-part",
                                 task_id, beam_nr))
        \* os.rename needs its source, and a destination that is no existing directory
        renamed == /\ \E e \in f2 : e.name = Norm(unpacked)
                   /\ t # <<>>
                   /\ ~Exists(f2, t)
        f3 == {IF e.name = Norm(unpacked) THEN [e EXCEPT !.name = Norm(t)] ELSE e : e \in f2}
        f4 == {e \in f3 : e.name # Norm(tarfile)}
    IN
    IF check_call(igetrc)
    THEN Outcome("CalledProcessError", <<iget>>, t, files)
    ELSE IF ~renamed
    THEN Outcome("OSError", <<iget, tar, RenameCall(unpacked, t, FALSE)>>, t, f2)
    ELSE Outcome("no", <<iget, tar, RenameCall(unpacked, t, TRUE), RemoveCall(tarfile)>>, t, f4)

\* lines 150-181: one iteration of the transfer loop
transfer_pair(target, tmp, files, date, task_id, beam_nr, alta_exception, ils, igetrc, tarout) ==
    LET d == get_alta_dir(date, task_id, beam_nr, alta_exception, ils)
        r == IF EndsWithMS(d.val)
             THEN transfer_dir(target, tmp, files, date, task_id, beam_nr, d.val, igetrc)
             ELSE IF EndsWithTar(d.val)
             THEN transfer_tar(target, tmp, files, date, task_id, beam_nr, d.val, igetrc, tarout)
             ELSE Outcome("no", <<>>, target, files)
    IN
    IF d.kind # "path" THEN Outcome(d.kind, d.cmds, target, files)
    ELSE Outcome(r.raised, d.cmds \o r.cmds, r.targetdir, r.fs)

\* lines 192-205: one iteration of the verification loop
verify_pair(target, tmp, files, date, task_id, beam_nr, alta_exception, ils, rc) ==
    LET d == get_alta_dir(date, task_id, beam_nr, alta_exception, ils)
        local_dir == IF target = <<".">>
                     THEN <<"{targetdir}WSRTA{date}{task_id:03d}_B{beam_nr:03d}.MS">>
                     ELSE target
        irsync == IrsyncCmd(d.val, local_dir, tmp, date, task_id, rc)
    IN
    IF d.kind # "path" THEN Outcome(d.kind, d.cmds, target, files)
    ELSE IF check_call(rc) THEN Outcome("CalledProcessError", d.cmds \o <<irsync>>, target, files)
    ELSE Outcome("no", d.cmds \o <<irsync>>, target, files)

\* the mutant: the task ids are the outer loop
advance_taskmajor(b, t, nb, nt) ==
    IF b < nb THEN [bi |-> b + 1, ti |-> t, over |-> FALSE]
    ELSE IF t < nt THEN [bi |-> 1, ti |-> t + 1, over |-> FALSE]
    ELSE [bi |-> b, ti |-> t, over |-> TRUE]

\* lines 145-149 and 188-191: the pair after (b, t) of "for beam_nr in beams: for
\* task_id in task_ids", or that the loops are over
advance(b, t, nb, nt) ==
    IF t < nt THEN [bi |-> b, ti |-> t + 1, over |-> FALSE]
    ELSE IF b < nb THEN [bi |-> b + 1, ti |-> 1, over |-> FALSE]
    ELSE [bi |-> b, ti |-> t, over |-> TRUE]

HasPairs(bs, ts) == bs # <<>> /\ ts # <<>>

\* lines 127-130: an int stands for the list of that int
AsList(x) == IF x.int THEN <<x.n>> ELSE x.list

RunDates == {180321, 190326}
TaskArgs ==
    {[int |-> TRUE, n |-> 5]}
        \cup {[int |-> FALSE, list |-> l] : l \in UNION {[1..n -> {1, 5}] : n \in 0..MaxTasks}}
BeamArgs == {[int |-> TRUE, n |-> 35], [int |-> FALSE, list |-> <<0, 35>>]}
\* the (targetdir, tmpdir) arguments: the defaults ".", and directories given
\* with and without their trailing slash
DirArgs ==
    {[targetdir |-> <<".">>, tmpdir |-> <<".">>],
     [targetdir |-> <<>>, tmpdir |-> <<"t", "/">>],
     [targetdir |-> <<"d", "/", "o", "u">>, tmpdir |-> <<>>],
     [targetdir |-> <<"d", "/", "o", "u", "/">>, tmpdir |-> <<"t">>]}

\* The code only tests the exit status of ils against 0: one non-zero status
\* stands for all of them in the runs of getdata_alta.
RunIlsAnswers == {a \in IlsAnswers : a.rc <= 1}

Init ==
    /\ pc = "start"
    /\ \E date \in RunDates, t \in TaskArgs, b \in BeamArgs, d \in DirArgs,
          alta_exception \in BOOLEAN, check_with_rsync \in BOOLEAN :
        args = [date |-> date, task_ids |-> t, beams |-> b,
                targetdir |-> d.targetdir, tmpdir |-> d.tmpdir,
                alta_exception |-> alta_exception, check_with_rsync |-> check_with_rsync]
    /\ spec = <<>>
    /\ ret = None
    /\ log = <<>>
    /\ probe = None
    /\ RunIdle

\* lines 122-143
Start ==
    /\ pc = "start"
    /\ task_ids' = AsList(args.task_ids)
    /\ beams' = AsList(args.beams)
    /\ tmpdir' = WithSlash(args.tmpdir)
    /\ targetdir' = WithSlash(args.targetdir)
    /\ bi' = 1
    /\ ti' = 1
    /\ pc' = IF HasPairs(AsList(args.beams), AsList(args.task_ids)) THEN "transfer" ELSE "sweep"
    /\ UNCHANGED <<spec, ret, args, log, fs, probe>>

\* lines 145-181, one (beam_nr, task_id) at a time
Transfer ==
    /\ pc = "transfer"
    /\ \E ils \in RunIlsAnswers, igetrc \in ToolExits,
          tarout \in TarOutcomes(PathHead(stripped(targetdir))) :
        LET r == transfer_pair(targetdir, tmpdir, fs, args.date, task_ids[ti], beams[bi],
                               args.alta_exception, ils, igetrc, tarout)
            n == advance(bi, ti, Len(beams), Len(task_ids))
        IN
        /\ log' = log \o r.cmds
        /\ targetdir' = r.targetdir
        /\ fs' = r.fs
        /\ IF r.raised # "no"
           THEN /\ pc' = "aborted"
                /\ ret' = [kind |-> r.raised]
                /\ UNCHANGED <<bi, ti>>
           ELSE /\ pc' = IF n.over THEN "sweep" ELSE "transfer"
                /\ bi' = n.bi
                /\ ti' = n.ti
                /\ ret' = ret
    /\ UNCHANGED <<spec, args, tmpdir, beams, task_ids, probe>>

\* line 184
Sweep ==
    /\ pc = "sweep"
    /\ log' = Append(log, SweepCmd(tmpdir))
    /\ bi' = 1
    /\ ti' = 1
    /\ pc' = IF ~args.check_with_rsync THEN "done"
             ELSE IF HasPairs(beams, task_ids) THEN "verify"
             ELSE "hostname"
    /\ ret' = IF ~args.check_with_rsync THEN [kind |-> "returned"] ELSE ret
    /\ UNCHANGED <<spec, args, targetdir, tmpdir, beams, task_ids, fs, probe>>

\* lines 187-205, one (beam_nr, task_id) at a time
Verify ==
    /\ pc = "verify"
    /\ \E ils \in RunIlsAnswers, rc \in ToolExits :
        LET r == verify_pair(targetdir, tmpdir, fs, args.date, task_ids[ti], beams[bi],
                             args.alta_exception, ils, rc)
            n == advance(bi, ti, Len(beams), Len(task_ids))
        IN
        /\ log' = log \o r.cmds
        /\ IF r.raised # "no"
           THEN /\ pc' = "aborted"
                /\ ret' = [kind |-> r.raised]
                /\ UNCHANGED <<bi, ti>>
           ELSE /\ pc' = IF n.over THEN "hostname" ELSE "verify"
                /\ bi' = n.bi
                /\ ti' = n.ti
                /\ ret' = ret
    /\ UNCHANGED <<spec, args, targetdir, tmpdir, beams, task_ids, fs, probe>>

\* line 208
Hostname ==
    /\ pc = "hostname"
    /\ log' = Append(log, HostnameCmd)
    /\ ti' = 1
    /\ pc' = IF task_ids # <<>> THEN "count" ELSE "done"
    /\ ret' = IF task_ids # <<>> THEN ret ELSE [kind |-> "returned"]
    /\ UNCHANGED <<spec, args, targetdir, tmpdir, beams, task_ids, bi, fs, probe>>

\* lines 211-226, one task_id at a time
CountFailed ==
    /\ pc = "count"
    /\ log' = Append(log, GrepCmd(tmpdir, args.date, task_ids[ti]))
    /\ IF ti < Len(task_ids)
       THEN ti' = ti + 1 /\ pc' = "count" /\ ret' = ret
       ELSE ti' = ti /\ pc' = "done" /\ ret' = [kind |-> "returned"]
    /\ UNCHANGED <<spec, args, targetdir, tmpdir, beams, task_ids, bi, fs, probe>>

Next == Start \/ Transfer \/ Sweep \/ Verify \/ Hostname \/ CountFailed

Spec == Init /\ [][Next]_vars

----------------------------------------------------------------------------
(* Claims about getdata_alta (checked under Spec).                         *)

\* the directory name the caller asked for: "." by default, no trailing slash
RequestedTarget ==
    LET d == IF args.targetdir = <<>> THEN <<".">> ELSE args.targetdir IN
    IF Last(d) = "/" THEN DropLast(d) ELSE d

IsOp(i, op) == log[i].op = op

\* the commands of one kind, in the order they were issued
Igets == SelectSeq(log, LAMBDA e : e.op = "iget")
Irsyncs == SelectSeq(log, LAMBDA e : e.op = "irsync")
SweepAt == {i \in 1..Len(log) : IsOp(i, "rm")}

\* C7: for every pair whose resolved path is a tarball, the second and later
\* ones included, once the iteration completes the data sits under exactly the
\* requested target name and no .tar file remains; the copy, the extraction, the
\* rename and the removal all use that same requested name.
C7_TarballLandsAtRequestedName ==
    /\ \A i \in 1..Len(log) :
        (IsOp(i, "rename") /\ log[i].ok) =>
            /\ log[i].dst = RequestedTarget
            /\ log[i - 2].dst = RequestedTarget \o <<".tar">>
            /\ log[i - 1].file = RequestedTarget \o <<".tar">>
            /\ log[i + 1].file = RequestedTarget \o <<".tar">>
            /\ \E e \in fs : e.name = RequestedTarget /\ e.what \in {"ms", "ms-part"}
    /\ pc # "aborted" => \A e \in fs : e.what # "tar"

\* C8: if the bulk-copy tool or the extraction tool exits non-zero for a pair,
\* the batch aborts at that step: nothing is issued after it.
C8_ToolFailureAborts ==
    \A i \in 1..Len(log) :
        (log[i].op \in {"iget", "tar"} /\ log[i].rc # 0) => (pc = "aborted" /\ i = Len(log))

\* C8 as amended: if the bulk-copy tool exits non-zero for a pair, the batch
\* aborts at that step (no extraction, rename or removal for the pair, no later
\* pair, no sweep, no verification); the exit status of the extraction tool is
\* not looked at, and the rename is attempted after every extraction.
C8_CopyFailureAborts ==
    \A i \in 1..Len(log) :
        /\ (IsOp(i, "iget") /\ log[i].rc # 0) => (pc = "aborted" /\ i = Len(log))
        /\ IsOp(i, "tar") => (i < Len(log) /\ IsOp(i + 1, "rename"))

\* the copy of the second tarball of a run failed, and the run stopped on it
C8_Witness ==
    /\ pc = "aborted"
    /\ Len(Igets) = 2
    /\ EndsInTar(Igets[1].src) /\ Igets[1].rc = 0
    /\ EndsInTar(Igets[2].src) /\ Igets[2].rc # 0
    /\ log[Len(log)] = Igets[2]

NPairs == Len(AsList(args.beams)) * Len(AsList(args.task_ids))

\* the k-th pair of the cross product, beams outermost
PairAt(k) ==
    [date |-> args.date,
     beam_nr |-> AsList(args.beams)[((k - 1) \div Len(AsList(args.task_ids))) + 1],
     task_id |-> AsList(args.task_ids)[((k - 1) % Len(AsList(args.task_ids))) + 1]]

\* the probes issued before the sweep, or all of them when there was no sweep
TransferProbes ==
    SelectSeq(SubSeq(log, 1, IF SweepAt = {} THEN Len(log) ELSE (CHOOSE i \in SweepAt : TRUE) - 1),
              LAMBDA e : e.op = "ils")

\* the run stopped on a failure: a command that exited non-zero, an ils that
\* could not be started, or a rename that raised
StoppedOnFailure ==
    /\ log # <<>>
    /\ \/ log[Len(log)].op \in {"iget", "irsync"} /\ log[Len(log)].rc # 0
       \/ log[Len(log)].op = "ils" /\ ret.kind = "OSError"
       \/ log[Len(log)].op = "rename" /\ ~log[Len(log)].ok

C10_VerifiesWhatWasCopied ==
    \A k \in 1..Len(Irsyncs) : Irsyncs[k].remote = Igets[k].src

=============================================================================
